---- MODULE Spec2Model ----
(***************************************************************************)
(* Model of the annotation translation engine of go_preprocess:            *)
(*   - AnnotationConverter.convert_annotations / generate_annotation       *)
(*     (src/src/gopreprocess/annotation_converter.py), the ortholog        *)
(*     variant, which rewrites the GoAssociation object it is given; its   *)
(*     driver builds a GafProcessor (src/src/processors/gafprocessor.py)   *)
(*     with arguments that class does not take;                            *)
(*   - dump_converted_annotations of the same file, which writes the two   *)
(*     output files of the ortholog variant;                               *)
(*   - generate_annotation(annotation, xrefs) and                          *)
(*     P2GAnnotationCreationController.convert_annotations                 *)
(*     (src/src/gopreprocess/goa_annotation_creation_controller.py), the   *)
(*     cross-reference variant, which works on a deep copy.                *)
(* Python strings are sequences of one-character strings, so that slicing, *)
(* split, replace and str(Curie) are computed as the code computes them.   *)
(***************************************************************************)
EXTENDS Integers, Sequences, FiniteSets, TLC

Range(f) == { f[k] : k \in DOMAIN f }

VARIABLES mode, source_annotations, pre, gene_map, target_genes, xrefs,
          isoform, isoform_annotations, locals, phase, i,
          converted_target_annotations, src_of, pc, err, dumped, run, first_out

vars == <<mode, source_annotations, pre, gene_map, target_genes, xrefs,
          isoform, isoform_annotations, locals, phase, i,
          converted_target_annotations, src_of, pc, err, dumped, run, first_out>>

\* Bound of the model: the longest source annotation list drawn in Init.
MaxRecords == 2

----------------------------------------------------------------------------
(* Python str operations                                                   *)

COLON == <<":">>

\* s[n:]
SliceFrom(s, n) == SubSeq(s, n + 1, Len(s))

\* index of the first occurrence of p in s at or after position k, 0 if none
RECURSIVE Find(_, _, _)
Find(s, p, k) ==
  IF k + Len(p) - 1 > Len(s) THEN 0
  ELSE IF SubSeq(s, k, k + Len(p) - 1) = p THEN k
  ELSE Find(s, p, k + 1)

\* s.split(":")
RECURSIVE split(_)
split(s) ==
  LET k == Find(s, COLON, 1)
  IN IF k = 0 THEN <<s>>
     ELSE <<SubSeq(s, 1, k - 1)>> \o split(SliceFrom(s, k))

\* s.split(":", maxsplit=1)
split1(s) ==
  LET k == Find(s, COLON, 1)
  IN IF k = 0 THEN <<s>> ELSE <<SubSeq(s, 1, k - 1), SliceFrom(s, k)>>

\* s.replace(old, new): every non-overlapping occurrence, left to right
RECURSIVE replace(_, _, _)
replace(s, old, new) ==
  LET k == Find(s, old, 1)
  IN IF k = 0 THEN s
     ELSE SubSeq(s, 1, k - 1) \o new \o replace(SliceFrom(s, k + Len(old) - 1), old, new)

\* s.lower() on ASCII text: each of the 26 capital letters becomes its small
\* letter, every other character stays
LowerChar(c) ==
  CASE c = "A" -> "a" [] c = "B" -> "b" [] c = "C" -> "c" [] c = "D" -> "d"
    [] c = "E" -> "e" [] c = "F" -> "f" [] c = "G" -> "g" [] c = "H" -> "h"
    [] c = "I" -> "i" [] c = "J" -> "j" [] c = "K" -> "k" [] c = "L" -> "l"
    [] c = "M" -> "m" [] c = "N" -> "n" [] c = "O" -> "o" [] c = "P" -> "p"
    [] c = "Q" -> "q" [] c = "R" -> "r" [] c = "S" -> "s" [] c = "T" -> "t"
    [] c = "U" -> "u" [] c = "V" -> "v" [] c = "W" -> "w" [] c = "X" -> "x"
    [] c = "Y" -> "y" [] c = "Z" -> "z"
    [] OTHER -> c

lower(s) == [k \in 1..Len(s) |-> LowerChar(s[k])]

----------------------------------------------------------------------------
(* ontobio.model.association.Curie and ConjunctiveSet                      *)

Curie(namespace, identity) == [namespace |-> namespace, identity |-> identity]

\* str(curie): "{namespace}:{identity}"
Str(c) == c.namespace \o COLON \o c.identity

\* Curie.from_str(entity); the configured taxa and references all hold a colon
from_str(entity) == Curie(split1(entity)[1], split1(entity)[2])

ConjunctiveSet(elements) == [elements |-> elements]

----------------------------------------------------------------------------
(* String literals of the code, its configuration and the sample data      *)

\* "NCBITaxon:10116"
s_NCBITaxon_10116 == <<"N","C","B","I","T","a","x","o","n",":","1","0","1","1","6">>

\* "NCBITaxon:10090"
s_NCBITaxon_10090 == <<"N","C","B","I","T","a","x","o","n",":","1","0","0","9","0">>

\* "GO_REF:0000096"
s_GO_REF_0000096 == <<"G","O","_","R","E","F",":","0","0","0","0","0","9","6">>

\* "ECO:0000266"
s_ECO_0000266 == <<"E","C","O",":","0","0","0","0","2","6","6">>

\* "RGD"
s_RGD == <<"R","G","D">>

\* "MGI"
s_MGI == <<"M","G","I">>

\* "UniProt"
s_UniProt == <<"U","n","i","P","r","o","t">>

\* "GO_Central"
s_GO_Central == <<"G","O","_","C","e","n","t","r","a","l">>

\* "GO_REF"
s_GO_REF == <<"G","O","_","R","E","F">>

\* "ECO"
s_ECO == <<"E","C","O">>

\* "UniProtKB"
s_UniProtKB == <<"U","n","i","P","r","o","t","K","B">>

\* "PMID"
s_PMID == <<"P","M","I","D">>

\* "GO"
s_GO == <<"G","O">>

\* "SO"
s_SO == <<"S","O">>

\* "PR"
s_PR == <<"P","R">>

\* "CHEBI"
s_CHEBI == <<"C","H","E","B","I">>

\* "gene"
s_gene == <<"g","e","n","e">>

\* "protein"
s_protein == <<"p","r","o","t","e","i","n">>

\* "1234"
s_1234 == <<"1","2","3","4">>

\* "9"
s_9 == <<"9">>

\* "P1"
s_P1 == <<"P","1">>

\* "5678"
s_5678 == <<"5","6","7","8">>

\* "77"
s_77 == <<"7","7">>

\* "1"
s_1 == <<"1">>

\* "0008150"
s_0008150 == <<"0","0","0","8","1","5","0">>

\* "0000315"
s_0000315 == <<"0","0","0","0","3","1","5">>

\* "0000704"
s_0000704 == <<"0","0","0","0","7","0","4">>

\* "000000001"
s_000000001 == <<"0","0","0","0","0","0","0","0","1">>

\* "33695"
s_33695 == <<"3","3","6","9","5">>

\* "Abc1"
s_Abc1 == <<"A","b","c","1">>

\* "abc protein 1"
s_abc_protein_1 == <<"a","b","c"," ","p","r","o","t","e","i","n"," ","1">>

\* "Xyz2"
s_Xyz2 == <<"X","y","z","2">>

\* "xyz protein 2"
s_xyz_protein_2 == <<"x","y","z"," ","p","r","o","t","e","i","n"," ","2">>

\* "Rat1"
s_Rat1 == <<"R","a","t","1">>

\* "rat gene 1"
s_rat_gene_1 == <<"r","a","t"," ","g","e","n","e"," ","1">>

\* "syn"
s_syn == <<"s","y","n">>

\* "MGI:MGI:"
s_MGI_MGI_ == <<"M","G","I",":","M","G","I",":">>

\* "MGI:"
s_MGI_ == <<"M","G","I",":">>

\* "MGI:MGI:5678"
s_MGI_MGI_5678 == <<"M","G","I",":","M","G","I",":","5","6","7","8">>

\* "MGI:77"
s_MGI_77 == <<"M","G","I",":","7","7">>

\* "!gaf-version: 2.2"
s_gaf_version == <<"!","g","a","f","-","v","e","r","s","i","o","n",":"," ","2",".","2">>

\* "!Generated by: GO_Central preprocess pipeline: protein to GO transformation"
s_generated_by == <<"!","G","e","n","e","r","a","t","e","d"," ","b","y",":"," ","G","O","_","C","e","n","t","r","a","l"," ","p","r","e","p","r","o","c","e","s","s"," ","p","i","p","e","l","i","n","e",":"," ","p","r","o","t","e","i","n"," ","t","o"," ","G","O"," ","t","r","a","n","s","f","o","r","m","a","t","i","o","n">>

\* "-"
s_dash == <<"-">>

\* "-ortho.gaf.gz"
s_ortho_gaf_gz == <<"-","o","r","t","h","o",".","g","a","f",".","g","z">>

\* "-ortho-test.gaf"
s_ortho_test_gaf == <<"-","o","r","t","h","o","-","t","e","s","t",".","g","a","f">>

\* "NCBITaxon:0", a taxon taxon_to_provider has no entry for
s_NCBITaxon_0 == <<"N","C","B","I","T","a","x","o","n",":","0">>

\* "mgi-p2g-converted"
s_mgi_p2g_converted == <<"m","g","i","-","p","2","g","-","c","o","n","v","e","r","t","e","d">>

\* "-isoform"
s_isoform_suffix == <<"-","i","s","o","f","o","r","m">>

\* "!Date Generated: "
s_date_generated == <<"!","D","a","t","e"," ","G","e","n","e","r","a","t","e","d",":"," ">>

\* "2026-10-30"
s_2026_10_30 == <<"2","0","2","6","-","1","0","-","3","0">>

\* "2026-10-31"
s_2026_10_31 == <<"2","0","2","6","-","1","0","-","3","1">>

\* ".gaf"
s_gaf == <<".","g","a","f">>

----------------------------------------------------------------------------
(* Process configuration: src.utils.settings and the constructor arguments *)

\* settings.iso_eco_code: the code strips its four-character "ECO:" prefix
\* with iso_eco_code[4:] in __init__
iso_eco_code == s_ECO_0000266

\* settings.taxon_to_provider
taxon_to_provider == (s_NCBITaxon_10116 :> s_RGD) @@ (s_NCBITaxon_10090 :> s_MGI)

\* AnnotationConverter.__init__(namespaces, target_taxon, source_taxon, ortho_reference)
self ==
  [ target_taxon    |-> s_NCBITaxon_10090,
    source_taxon    |-> s_NCBITaxon_10116,
    iso_code        |-> SliceFrom(iso_eco_code, 4),
    ortho_reference |-> split(s_GO_REF_0000096)[2] ]

\* ontobio map_gp_type_label_to_curie: the label's Curie, the default
\* entity type for a label it does not know
map_gp_type_label_to_curie(type_label) ==
  CASE type_label = s_gene    -> Curie(s_SO, s_0000704)
    [] type_label = s_protein -> Curie(s_PR, s_000000001)
    [] OTHER                  -> Curie(s_CHEBI, s_33695)

----------------------------------------------------------------------------
(* AnnotationConverter.generate_annotation: the assignments in code order. *)
(* The result carries the state of the annotation object when the call     *)
(* returned or raised, since the object is rewritten where it stands.      *)

Return(value)      == [status |-> "return", value |-> value]
ReturnNone(value)  == [status |-> "None", value |-> value]
Raise(exc, value)  == [status |-> exc, value |-> value]

\* lines 100-105
evidence_rewrite(annotation) ==
  [annotation EXCEPT
     !.evidence.with_support_from =
        << ConjunctiveSet(<< Curie(annotation.subject.id.namespace,
                                   annotation.subject.id.identity) >>) >>,
     !.evidence.has_supporting_reference = << Curie(s_GO_REF, self.ortho_reference) >>,
     !.evidence.type = Curie(s_ECO, iso_eco_code)]

\* lines 107-110; the caller has checked the key
identity_rewrite(annotation, gm) ==
  [annotation EXCEPT
     !.subject.id = Curie(s_MGI, gm[Str(annotation.subject.id)]),
     !.subject.taxon = from_str(self.target_taxon),
     !.subject.synonyms = <<>>,
     !.object.taxon = from_str(self.target_taxon)]

\* as provided_by_rewrite, without the test on the source's label
provided_by_always(annotation) ==
  [annotation EXCEPT !.provided_by = taxon_to_provider[self.target_taxon]]

\* lines 114-115
provided_by_rewrite(annotation) ==
  IF annotation.provided_by = taxon_to_provider[self.source_taxon]
  THEN [annotation EXCEPT !.provided_by = taxon_to_provider[self.target_taxon]]
  ELSE annotation

\* lines 117-118; the caller has checked the key
hydrate_names(annotation, tg) ==
  [annotation EXCEPT
     !.subject.fullname = tg[Str(annotation.subject.id)].fullname,
     !.subject.label = tg[Str(annotation.subject.id)].label]

\* line 122; the caller has checked that the type list has a first item
hydrate_type(annotation, tg) ==
  [annotation EXCEPT
     !.subject.type = << map_gp_type_label_to_curie(tg[Str(annotation.subject.id)].type[1]) >>]

\* as generate_annotation, with a missing metadata key passed over in silence
generate_annotation_swallow(annotation, gm, tg) ==
  LET a1 == evidence_rewrite(annotation)
  IN IF Str(a1.subject.id) \notin DOMAIN gm THEN Raise("KeyError", a1)
     ELSE
       LET a2 == provided_by_rewrite(identity_rewrite(a1, gm))
       IN IF Str(a2.subject.id) \notin DOMAIN tg THEN Return(a2)
          ELSE
            LET a3 == hydrate_names(a2, tg)
            IN IF tg[Str(a3.subject.id)].type = <<>> THEN Raise("IndexError", a3)
               ELSE Return(hydrate_type(a3, tg))

\* as generate_annotation, with a missing key of the gene map passed over in
\* silence (the record is returned with its subject as it was)
generate_annotation_unmapped(annotation, gm, tg) ==
  LET a1 == evidence_rewrite(annotation)
  IN IF Str(a1.subject.id) \notin DOMAIN gm THEN Return(a1)
     ELSE
       LET a2 == provided_by_rewrite(identity_rewrite(a1, gm))
       IN IF Str(a2.subject.id) \notin DOMAIN tg THEN Raise("KeyError", a2)
          ELSE
            LET a3 == hydrate_names(a2, tg)
            IN IF tg[Str(a3.subject.id)].type = <<>> THEN Raise("IndexError", a3)
               ELSE Return(hydrate_type(a3, tg))

\* as generate_annotation, with the evidence rewritten after subject.id
generate_annotation_late(annotation, gm, tg) ==
  IF Str(annotation.subject.id) \notin DOMAIN gm THEN Raise("KeyError", annotation)
  ELSE
    LET a2 == provided_by_rewrite(evidence_rewrite(identity_rewrite(annotation, gm)))
    IN IF Str(a2.subject.id) \notin DOMAIN tg THEN Raise("KeyError", a2)
       ELSE
         LET a3 == hydrate_names(a2, tg)
         IN IF tg[Str(a3.subject.id)].type = <<>> THEN Raise("IndexError", a3)
            ELSE Return(hydrate_type(a3, tg))

generate_annotation(annotation, gm, tg) ==
  LET a1 == evidence_rewrite(annotation)
  IN IF Str(a1.subject.id) \notin DOMAIN gm THEN Raise("KeyError", a1)
     ELSE
       LET a2 == provided_by_rewrite(identity_rewrite(a1, gm))
       IN IF Str(a2.subject.id) \notin DOMAIN tg THEN Raise("KeyError", a2)
          ELSE
            LET a3 == hydrate_names(a2, tg)
            IN IF tg[Str(a3.subject.id)].type = <<>> THEN Raise("IndexError", a3)
               ELSE Return(hydrate_type(a3, tg))

----------------------------------------------------------------------------
(* src/src/processors/gafprocessor.py, the GafProcessor line 2 imports     *)

\* GafProcessor.__init__(self, filepath): the parameters after self
GafProcessorParams == << "filepath" >>

\* Python's binding of a call's arguments to those parameters, none of which
\* has a default: more positional arguments than parameters, a keyword that
\* names none of them, a keyword that names one a positional argument has
\* filled, or a parameter left without a value, raises TypeError
GafProcessor(positional, keywords) ==
  LET filled == { GafProcessorParams[k] :
                    k \in { j \in DOMAIN GafProcessorParams : j <= Len(positional) } }
  IN IF \/ Len(positional) > Len(GafProcessorParams)
        \/ keywords \ Range(GafProcessorParams) # {}
        \/ keywords \cap filled # {}
        \/ Range(GafProcessorParams) \ (filled \cup keywords) # {}
     THEN "TypeError"
     ELSE "GafProcessor"

----------------------------------------------------------------------------
(* goa_annotation_creation_controller.generate_annotation(annotation,      *)
(* xrefs). Python values carry their type: iterating a dict yields its     *)
(* keys, and an attribute a type does not have raises AttributeError.      *)

PyList(v) == [type |-> "list", val |-> v]

\* a dict: its mapping and its keys in insertion order, the order iteration follows
Dict(keys, map) == [keys |-> keys, map |-> map]

PyDict(d) == [type |-> "dict", val |-> d.map, keys |-> d.keys]

\* the type of the items a for-loop over `it` binds
ItemType(it) == IF it.type = "list" THEN "GoAssociation" ELSE "Curie"

\* len(list(it))
NumItems(it) == IF it.type = "list" THEN Len(it.val) ELSE Len(it.keys)

\* as p2g_generate_annotation, returning the untouched copy where it has no xref
p2g_generate_annotation_keep(item_type, annotation, xr) ==
  IF item_type # "GoAssociation" THEN Raise("AttributeError", annotation)
  ELSE IF xr.type # "dict" THEN Raise("AttributeError", annotation)
  ELSE IF annotation.subject.id \in DOMAIN xr.val
  THEN LET new_gene == Curie(s_MGI, replace(xr.val[annotation.subject.id], s_MGI_MGI_, s_MGI_))
       IN Return([annotation EXCEPT
                    !.subject.id = new_gene,
                    !.subject.synonyms = <<>>,
                    !.object.taxon = from_str(s_NCBITaxon_10090),
                    !.provided_by = s_GO_Central])
  ELSE Return(annotation)

\* lines 28-38
p2g_generate_annotation(item_type, annotation, xr) ==
  IF item_type # "GoAssociation" THEN Raise("AttributeError", annotation)
  ELSE IF xr.type # "dict" THEN Raise("AttributeError", annotation)
  ELSE IF annotation.subject.id \in DOMAIN xr.val
  THEN LET new_gene == Curie(s_MGI, replace(xr.val[annotation.subject.id], s_MGI_MGI_, s_MGI_))
       IN Return([annotation EXCEPT
                    !.subject.id = new_gene,
                    !.subject.synonyms = <<>>,
                    !.object.taxon = from_str(s_NCBITaxon_10090),
                    !.provided_by = s_GO_Central])
  ELSE ReturnNone(annotation)

\* as append, inserting at the front
append_front(list, x) == <<x>> \o list

\* the list comprehension of lines 114-118 collects the rows in the order of
\* iteration; so does a caller that collects what generate_annotation returns
append(list, x) == Append(list, x)

----------------------------------------------------------------------------
(* Inputs: the arguments of generate_annotation and what the external      *)
(* collaborators of the drivers return                                     *)

\* a GoAssociation of the source species, the argument `annotation`
GoAssociation(subject_id, provided_by) ==
  [ subject  |-> [ id       |-> subject_id,
                   taxon    |-> from_str(s_NCBITaxon_10116),
                   fullname |-> s_rat_gene_1,
                   label    |-> s_Rat1,
                   type     |-> << Curie(s_SO, s_0000704) >>,
                   synonyms |-> << s_syn >> ],
    object   |-> [ id    |-> Curie(s_GO, s_0008150),
                   taxon |-> from_str(s_NCBITaxon_10116) ],
    evidence |-> [ type |-> Curie(s_ECO, s_0000315),
                   has_supporting_reference |-> << Curie(s_PMID, s_1) >>,
                   with_support_from |-> << ConjunctiveSet(<< Curie(s_UniProtKB, s_P1) >>) >> ],
    provided_by |-> provided_by ]

SubjectIds == { Curie(s_RGD, s_1234), Curie(s_RGD, s_9), Curie(s_UniProtKB, s_P1) }

Providers == { s_RGD, s_UniProt }

Annotations == { GoAssociation(id, p) : id \in SubjectIds, p \in Providers }

AnnotationLists(n) == UNION { [1..k -> Annotations] : k \in 0..n }

EmptyDict == [k \in {} |-> k]

\* OrthoProcessor(...).genes: str(source gene Curie) -> target gene identity
GeneMaps ==
  { EmptyDict,
    Str(Curie(s_RGD, s_1234)) :> s_5678,
    (Str(Curie(s_RGD, s_1234)) :> s_5678) @@ (Str(Curie(s_RGD, s_9)) :> s_77)
       @@ (Str(Curie(s_UniProtKB, s_P1)) :> s_5678) }

GeneAbc1 == [label |-> s_Abc1, fullname |-> s_abc_protein_1, type |-> << s_gene >>]

GeneXyz2 == [label |-> s_Xyz2, fullname |-> s_xyz_protein_2, type |-> << s_protein >>]

\* GpiProcessor(...).target_genes: str(target gene Curie) -> {label, fullname, type}
TargetGenes ==
  { (Str(Curie(s_MGI, s_5678)) :> GeneAbc1) @@ (Str(Curie(s_MGI, s_77)) :> GeneXyz2),
    Str(Curie(s_MGI, s_5678)) :> GeneAbc1,
    (Str(Curie(s_MGI, s_5678)) :> GeneAbc1)
       @@ (Str(Curie(s_MGI, s_77)) :> [GeneXyz2 EXCEPT !.type = <<>>]) }

\* GpiProcessor.get_xrefs(): the keys are what line 28 compares subject.id with
Xrefs ==
  { Dict(<<>>, EmptyDict),
    Dict(<< Curie(s_UniProtKB, s_P1) >>, Curie(s_UniProtKB, s_P1) :> s_MGI_MGI_5678),
    Dict(<< Curie(s_UniProtKB, s_P1), Curie(s_RGD, s_1234) >>,
         (Curie(s_UniProtKB, s_P1) :> s_MGI_MGI_5678) @@ (Curie(s_RGD, s_1234) :> s_MGI_77)) }

\* datetime.date.today() as dump_annotations may read it
Dates == { s_2026_10_30, s_2026_10_31 }

\* get_source_annotations returns (xrefs, source_annotations, isoform annotations or None)
get_source_annotations(xr, anns, iso, iso_anns) ==
  << PyDict(xr), PyList(anns), IF iso THEN PyList(iso_anns) ELSE [type |-> "NoneType", val |-> <<>>] >>

\* line 111: source_annotations, xrefs, isoform_annotations = get_source_annotations(...)
unpack(ret) ==
  [ source_annotations |-> ret[1], xrefs |-> ret[2], isoform_annotations |-> ret[3] ]

\* generate_annotation(annotation=..., xrefs=...) called on the records with their map
call_args(xr, anns) ==
  [ source_annotations |-> PyList(anns), xrefs |-> PyDict(xr),
    isoform_annotations |-> [type |-> "NoneType", val |-> <<>>] ]

NoLocals == call_args(Dict(<<>>, EmptyDict), <<>>)

\* rows as dump_converted_annotations is handed them: lists of strings
RowLists ==
  { <<>>,
    << << s_gaf_version >> >>,
    << << s_gaf_version >>, << s_MGI, Str(Curie(s_MGI, s_5678)) >> >> }

\* the taxa a caller of dump_converted_annotations may name
Taxa == { s_NCBITaxon_10116, s_NCBITaxon_10090, s_NCBITaxon_0 }

\* dump_converted_annotations(converted_target_annotations, source_taxon, target_taxon)
dump_args(rows, source_taxon, target_taxon) ==
  [ converted_target_annotations |-> rows,
    source_taxon |-> source_taxon,
    target_taxon |-> target_taxon ]

DumpArgs == { dump_args(rows, st, tt) : rows \in RowLists, st \in Taxa, tt \in Taxa }

Modes == { "ortho_driver", "ortho_call", "ortho_dump", "p2g_driver", "p2g_call" }

Init ==
  /\ mode \in Modes
  \* the ortholog driver takes no records: it is to build them itself
  /\ source_annotations \in
       (IF mode \in {"ortho_driver", "ortho_dump"}
        THEN { <<>> }
        ELSE AnnotationLists(MaxRecords))
  /\ pre = source_annotations
  /\ IF mode \in {"ortho_driver", "ortho_call"}
     THEN /\ gene_map \in GeneMaps
          /\ target_genes \in TargetGenes
          /\ xrefs = Dict(<<>>, EmptyDict)
          /\ isoform = FALSE
          /\ isoform_annotations = <<>>
     ELSE IF mode = "ortho_dump"
     THEN /\ gene_map = EmptyDict
          /\ target_genes = EmptyDict
          /\ xrefs = Dict(<<>>, EmptyDict)
          /\ isoform = FALSE
          /\ isoform_annotations = <<>>
     ELSE /\ gene_map = EmptyDict
          /\ target_genes = EmptyDict
          /\ xrefs \in Xrefs
          /\ IF mode = "p2g_driver"
             THEN /\ isoform \in BOOLEAN
                  /\ isoform_annotations \in
                       (IF isoform THEN AnnotationLists(1) ELSE { <<>> })
             ELSE /\ isoform = FALSE
                  /\ isoform_annotations = <<>>
  /\ locals \in (CASE mode = "p2g_call"   -> { call_args(xrefs, source_annotations) }
                   [] mode = "ortho_dump" -> DumpArgs
                   [] OTHER               -> { NoLocals })
  /\ phase = "main"
  /\ i = 0
  /\ converted_target_annotations = <<>>
  /\ src_of = <<>>
  /\ pc = (IF mode \in {"ortho_driver", "ortho_dump", "p2g_driver"} THEN "start" ELSE "loop")
  /\ err = "none"
  /\ dumped = <<>>
  /\ run = 1
  /\ first_out = <<>>

----------------------------------------------------------------------------
(* AnnotationConverter                                                     *)

\* One call of generate_annotation on the i+1-th object of the list: the
\* object is left as the call left it, and what is collected is the
\* annotation with the fields it has on return.
OrthoCall ==
  LET r == generate_annotation(source_annotations[i + 1], gene_map, target_genes)
  IN /\ source_annotations' = [source_annotations EXCEPT ![i + 1] = r.value]
     /\ IF r.status = "return"
        THEN /\ converted_target_annotations' = append(converted_target_annotations, r.value)
             /\ src_of' = append(src_of, i + 1)
             /\ i' = i + 1
             /\ UNCHANGED <<pc, err>>
        ELSE /\ pc' = "aborted"
             /\ err' = r.status
             /\ UNCHANGED <<converted_target_annotations, src_of, i>>

\* convert_annotations, lines 54-65: the set-up. download_files, GpiProcessor
\* and OrthoProcessor are external and hand back the store and the map; the
\* GafProcessor call of lines 61-65 passes two positional arguments and
\* three keywords to a constructor that takes a filepath, and an instance
\* would have no attribute convertible_annotations. The exception leaves
\* convert_annotations: lines 69-82 are not reached.
convert_annotations_setup ==
  /\ mode = "ortho_driver"
  /\ pc = "start"
  /\ pc' = "aborted"
  /\ err' = (IF GafProcessor(<< "source_genes", "source_gaf_path" >>,
                             { "taxon_to_provider", "target_taxon", "namespaces" })
                  = "TypeError"
             THEN "TypeError"
             ELSE "AttributeError")
  /\ UNCHANGED <<mode, source_annotations, pre, gene_map, target_genes, xrefs, isoform,
                 isoform_annotations, locals, phase, i, converted_target_annotations,
                 src_of, dumped, run, first_out>>

\* dump_converted_annotations, lines 15-30: the two pystow.dump_df calls, each
\* a file of the same rows under the target provider's key; a taxon that
\* taxon_to_provider has no entry for raises KeyError while the arguments of
\* the first call are evaluated, before any file is written
dump_converted_annotations(rows, source_taxon, target_taxon) ==
  IF target_taxon \notin DOMAIN taxon_to_provider \/ source_taxon \notin DOMAIN taxon_to_provider
  THEN Raise("KeyError", <<>>)
  ELSE LET stem == lower(taxon_to_provider[target_taxon]) \o s_dash
                     \o lower(taxon_to_provider[source_taxon])
       IN Return(<< [ key  |-> taxon_to_provider[target_taxon],
                      name |-> stem \o s_ortho_gaf_gz,
                      compression |-> "gzip",
                      rows |-> rows ],
                    [ key  |-> taxon_to_provider[target_taxon],
                      name |-> stem \o s_ortho_test_gaf,
                      compression |-> "none",
                      rows |-> rows ] >>)

\* dump_converted_annotations called with rows and two taxa
call_dump_converted_annotations ==
  /\ mode = "ortho_dump"
  /\ pc = "start"
  /\ LET r == dump_converted_annotations(locals.converted_target_annotations,
                                         locals.source_taxon, locals.target_taxon)
     IN IF r.status = "return"
        THEN /\ dumped' = dumped \o r.value
             /\ pc' = "done"
             /\ UNCHANGED err
        ELSE /\ pc' = "aborted"
             /\ err' = r.status
             /\ UNCHANGED dumped
  /\ UNCHANGED <<mode, source_annotations, pre, gene_map, target_genes, xrefs, isoform,
                 isoform_annotations, locals, phase, i, converted_target_annotations,
                 src_of, run, first_out>>

\* generate_annotation(annotation, gene_map, target_genes) called on each
\* record in turn, the caller collecting what it returns
call_generate_annotation ==
  /\ mode = "ortho_call"
  /\ pc = "loop"
  /\ i < Len(source_annotations)
  /\ OrthoCall
  /\ UNCHANGED <<mode, pre, gene_map, target_genes, xrefs, isoform, isoform_annotations,
                 locals, phase, dumped, run, first_out>>

----------------------------------------------------------------------------
(* P2GAnnotationCreationController                                         *)

\* line 111: the driver binds what get_source_annotations returns
p2g_convert_annotations_start ==
  /\ mode = "p2g_driver"
  /\ pc = "start"
  /\ locals' = unpack(get_source_annotations(xrefs, source_annotations,
                                             isoform, isoform_annotations))
  /\ pc' = "loop"
  /\ UNCHANGED <<mode, source_annotations, pre, gene_map, target_genes, xrefs, isoform,
                 isoform_annotations, phase, i, converted_target_annotations, src_of,
                 err, dumped, run, first_out>>

\* the iterable of the comprehension at lines 114-118 or 125-129
Iterated == IF phase = "main" THEN locals.source_annotations ELSE locals.isoform_annotations

\* the item the k-th iteration binds; a dict yields its keys in insertion order
Item(it, k) == IF it.type = "list" THEN it.val[k] ELSE it.keys[k]

\* lines 114-118 and 125-129: one iteration of the comprehension; deepcopy
\* leaves the iterated record as it was
p2g_convert_annotations_loop ==
  /\ mode \in {"p2g_driver", "p2g_call"}
  /\ pc = "loop"
  /\ i < NumItems(Iterated)
  /\ LET r == p2g_generate_annotation(ItemType(Iterated), Item(Iterated, i + 1), locals.xrefs)
     IN CASE r.status = "return" ->
               /\ converted_target_annotations' = append(converted_target_annotations, r.value)
               /\ src_of' = append(src_of, i + 1)
               /\ i' = i + 1
               /\ UNCHANGED <<pc, err>>
          [] r.status = "None" ->
               /\ i' = i + 1
               /\ UNCHANGED <<converted_target_annotations, src_of, pc, err>>
          [] OTHER ->
               /\ pc' = "aborted"
               /\ err' = r.status
               /\ UNCHANGED <<converted_target_annotations, src_of, i>>
  /\ UNCHANGED <<mode, source_annotations, pre, gene_map, target_genes, xrefs, isoform,
                 isoform_annotations, locals, phase, dumped, run, first_out>>

\* dump_annotations, lines 76-89; today is what datetime.date.today() gives
dump_annotations(annotations, iso, today) ==
  [ name   |-> s_mgi_p2g_converted \o (IF iso THEN s_isoform_suffix ELSE <<>>) \o s_gaf,
    header |-> << s_gaf_version, s_generated_by, s_date_generated \o today >>,
    rows   |-> annotations ]

\* lines 121-132: the dump after a comprehension, then the isoform pass if asked
p2g_convert_annotations_dump ==
  /\ mode = "p2g_driver"
  /\ pc = "loop"
  /\ i = NumItems(Iterated)
  /\ \E today \in Dates :
       dumped' = Append(dumped, dump_annotations(converted_target_annotations,
                                                 phase = "isoform", today))
  /\ IF phase = "main" /\ isoform
     THEN /\ phase' = "isoform"
          /\ i' = 0
          /\ converted_target_annotations' = <<>>
          /\ src_of' = <<>>
          /\ UNCHANGED pc
     ELSE /\ pc' = "done"
          /\ UNCHANGED <<phase, i, converted_target_annotations, src_of>>
  /\ UNCHANGED <<mode, source_annotations, pre, gene_map, target_genes, xrefs, isoform,
                 isoform_annotations, locals, err, run, first_out>>

----------------------------------------------------------------------------
(* The engine applied to records directly                                  *)

\* every record has been handed to generate_annotation: the translated
\* sequence is the result
engine_return ==
  /\ mode \in {"ortho_call", "p2g_call"}
  /\ pc = "loop"
  /\ i = Len(source_annotations)
  /\ pc' = "done"
  /\ UNCHANGED <<mode, source_annotations, pre, gene_map, target_genes, xrefs, isoform,
                 isoform_annotations, locals, phase, i, converted_target_annotations,
                 src_of, err, dumped, run, first_out>>

\* the same record objects, map and store are handed to the engine again
engine_rerun ==
  /\ mode \in {"ortho_call", "p2g_call"}
  /\ pc = "done"
  /\ run = 1
  /\ run' = 2
  /\ first_out' = converted_target_annotations
  /\ pre' = source_annotations
  /\ converted_target_annotations' = <<>>
  /\ src_of' = <<>>
  /\ i' = 0
  /\ pc' = "loop"
  /\ UNCHANGED <<mode, source_annotations, gene_map, target_genes, xrefs, isoform,
                 isoform_annotations, locals, phase, err, dumped>>

Next ==
  \/ convert_annotations_setup
  \/ call_dump_converted_annotations
  \/ call_generate_annotation
  \/ p2g_convert_annotations_start
  \/ p2g_convert_annotations_loop
  \/ p2g_convert_annotations_dump
  \/ engine_return
  \/ engine_rerun

Spec == Init /\ [][Next]_vars

----------------------------------------------------------------------------
(* Vocabulary of the properties                                            *)

OrthoModes == {"ortho_driver", "ortho_call"}

\* the modes in which generate_annotation receives the records and their map
EngineModes == {"ortho_call", "p2g_call"}

\* the translated records
OutputRecords == converted_target_annotations

\* the records of the current pass as they were when it began
InputList == IF mode = "p2g_driver" /\ phase = "isoform" THEN isoform_annotations ELSE pre

\* the subject identifier is a key of the gene correspondence map
Mapped(a) ==
  IF mode \in OrthoModes THEN Str(a.subject.id) \in DOMAIN gene_map
  ELSE a.subject.id \in DOMAIN xrefs.map

\* the metadata key of the target gene a mapped record is sent to
TargetKey(a) == Str(Curie(s_MGI, gene_map[Str(a.subject.id)]))

\* the input record the j-th translated record derives from
Source(j) == InputList[src_of[j]]

\* the configured Curies of the translation context
ReferenceCurie == from_str(s_GO_REF_0000096)

InferredEvidenceCurie == from_str(iso_eco_code)

TargetTaxonCurie == from_str(self.target_taxon)

----------------------------------------------------------------------------
(* C1 *)

\* C1 as stated: a record whose subject identifier is not a key of the
\* correspondence map yields no output record and no error, whether it is
\* handed to AnnotationConverter.generate_annotation or to the
\* cross-reference generate_annotation.
C1_AsStated ==
  mode \in EngineModes =>
    \A k \in 1..Len(InputList) :
      ~Mapped(InputList[k]) =>
        /\ k \notin Range(src_of)
        /\ ~(pc = "aborted" /\ i + 1 = k)

\* C1 amended: such a record yields no output record; the cross-reference
\* generate_annotation raises no error for it (it returns None and the
\* later records are still translated), while
\* AnnotationConverter.generate_annotation raises KeyError for it, and no
\* later record is translated.
C1_UnmappedDropped ==
  mode \in EngineModes =>
    \A k \in 1..Len(InputList) :
      ~Mapped(InputList[k]) =>
        /\ k \notin Range(src_of)
        /\ mode = "p2g_call" => ~(pc = "aborted" /\ i + 1 = k)
        /\ mode = "ortho_call" =>
             /\ i < k
             /\ pc # "done"
             /\ (pc = "aborted" /\ i + 1 = k) => err = "KeyError"

\* the cross-reference generate_annotation has passed over an unmapped
\* record and translated the next one
C1_Witness ==
  /\ mode = "p2g_call"
  /\ run = 1
  /\ pc = "done"
  /\ Len(InputList) = 2
  /\ ~Mapped(InputList[1])
  /\ src_of = <<2>>

----------------------------------------------------------------------------
(* C2 *)

\* C2: when a record's subject is mapped to a target identifier that is not
\* a key of the metadata store, generate_annotation raises KeyError, which
\* nothing catches: the run stops at that record at the latest and never
\* ends normally, no record is emitted for it, and no output file is
\* written: neither convert_annotations nor a call of generate_annotation
\* reaches dump_converted_annotations, which writes files only when it is
\* called itself.
C2_MissingMetadataAborts ==
  /\ mode \in OrthoModes => dumped = <<>>
  /\ mode = "ortho_driver" => pc # "done"
  /\ (mode = "ortho_call" /\ run = 1) =>
       \A k \in 1..Len(pre) :
         (Mapped(pre[k]) /\ TargetKey(pre[k]) \notin DOMAIN target_genes) =>
           /\ i < k
           /\ k \notin Range(src_of)
           /\ pc # "done"
           /\ (pc = "aborted" /\ i + 1 = k) => err = "KeyError"

\* one record has been translated and the next, whose target gene the
\* metadata store does not hold, has raised KeyError
C2_Witness ==
  /\ mode = "ortho_call"
  /\ pc = "aborted"
  /\ err = "KeyError"
  /\ i = 1
  /\ src_of = <<1>>
  /\ Mapped(pre[2])
  /\ TargetKey(pre[2]) \notin DOMAIN target_genes
  /\ dumped = <<>>

----------------------------------------------------------------------------
(* C3 *)

\* C3 as stated: every output record has has_supporting_reference equal to
\* the one-element sequence of the configured reference Curie, evidence
\* type equal to the configured inferred-from-sequence-similarity Curie,
\* and subject and object taxon equal to the target taxon.
C3_AsStated ==
  mode \in EngineModes =>
    \A j \in 1..Len(OutputRecords) :
      /\ OutputRecords[j].evidence.has_supporting_reference = << ReferenceCurie >>
      /\ OutputRecords[j].evidence.type = InferredEvidenceCurie
      /\ OutputRecords[j].subject.taxon = TargetTaxonCurie
      /\ OutputRecords[j].object.taxon = TargetTaxonCurie

----------------------------------------------------------------------------
(* C4 *)

\* C4 as stated: every output record's with_support_from is the one-element
\* sequence whose conjunctive set holds exactly the subject identifier the
\* record had before translation.
C4_AsStated ==
  mode \in EngineModes =>
    \A j \in 1..Len(OutputRecords) :
      OutputRecords[j].evidence.with_support_from
        = << ConjunctiveSet(<< Source(j).subject.id >>) >>

\* C4 amended: every output record of the ortholog variant has that
\* with_support_from, built from the source gene identifier and not from the
\* mapped target identifier; the cross-reference variant leaves
\* with_support_from as the input record had it.
C4_WithSupportFrom ==
  mode \in EngineModes =>
    \A j \in 1..Len(OutputRecords) :
      /\ mode \in OrthoModes =>
           OutputRecords[j].evidence.with_support_from
             = << ConjunctiveSet(<< Source(j).subject.id >>) >>
      /\ mode = "p2g_call" =>
           OutputRecords[j].evidence.with_support_from
             = Source(j).evidence.with_support_from

\* the ortholog variant has translated RGD:1234 into MGI:5678
C4_Witness ==
  /\ mode \in OrthoModes
  /\ run = 1
  /\ Len(OutputRecords) >= 1
  /\ Source(1).subject.id = Curie(s_RGD, s_1234)
  /\ OutputRecords[1].subject.id = Curie(s_MGI, s_5678)

----------------------------------------------------------------------------
(* C5 *)

\* C5 as stated: an output record's provided_by is the target species'
\* default attribution label if the input's was the source species' default
\* label, and is the input's otherwise.
C5_AsStated ==
  mode \in EngineModes =>
    \A j \in 1..Len(OutputRecords) :
      OutputRecords[j].provided_by =
        IF Source(j).provided_by = taxon_to_provider[self.source_taxon]
        THEN taxon_to_provider[self.target_taxon]
        ELSE Source(j).provided_by

\* C5 amended: that holds of the output records of the ortholog variant;
\* the cross-reference variant sets provided_by to "GO_Central" whatever the
\* input's was.
C5_ProvidedBy ==
  mode \in EngineModes =>
    \A j \in 1..Len(OutputRecords) :
      /\ mode \in OrthoModes =>
           OutputRecords[j].provided_by =
             IF Source(j).provided_by = taxon_to_provider[self.source_taxon]
             THEN taxon_to_provider[self.target_taxon]
             ELSE Source(j).provided_by
      /\ mode = "p2g_call" => OutputRecords[j].provided_by = s_GO_Central

\* the ortholog variant has translated a record attributed to RGD and one
\* attributed to UniProt
C5_Witness ==
  /\ mode \in OrthoModes
  /\ run = 1
  /\ Len(OutputRecords) = 2
  /\ Source(1).provided_by = s_RGD
  /\ OutputRecords[1].provided_by = s_MGI
  /\ Source(2).provided_by = s_UniProt
  /\ OutputRecords[2].provided_by = s_UniProt

----------------------------------------------------------------------------
(* C6 *)

\* C6 as stated: translating a record leaves the source annotation record
\* (subject, object, evidence, provided_by) as it was, in both variants.
C6_AsStated ==
  (mode \in EngineModes /\ run = 1) => source_annotations = pre

----------------------------------------------------------------------------
(* C7 *)

\* C7 as stated: the engine run a second time on the same record sequence,
\* correspondence map and metadata store ends as the first run did, with the
\* same output sequence.
C7_AsStated ==
  (run = 2 /\ pc \in {"done", "aborted"}) =>
    /\ pc = "done"
    /\ converted_target_annotations = first_out

----------------------------------------------------------------------------
(* C8 *)

\* C8: there are never more output records than input records, and when the
\* run has ended the two numbers are equal if and only if every input
\* record's subject identifier is a key of the correspondence map.
C8_Cardinality ==
  /\ Len(OutputRecords) <= Len(InputList)
  /\ pc = "done" =>
       (Len(OutputRecords) = Len(InputList)
          <=> \A k \in 1..Len(InputList) : Mapped(InputList[k]))

\* a run has ended with fewer output records than input records, and more
\* than none
C8_Witness ==
  /\ pc = "done"
  /\ run = 1
  /\ Len(OutputRecords) = 1
  /\ Len(InputList) = 2

----------------------------------------------------------------------------
(* C9 *)

\* C9: the output follows the input order and holds no record twice: the
\* input positions of the output records are strictly increasing, each
\* output record is the translation of the input record at its position,
\* and when the run has ended the positions are exactly those of the
\* records whose subject identifier is mapped.
C9_OrderPreserved ==
  /\ Len(src_of) = Len(OutputRecords)
  /\ \A j1, j2 \in 1..Len(src_of) : j1 < j2 => src_of[j1] < src_of[j2]
  /\ \A j \in 1..Len(src_of) :
       OutputRecords[j] =
         IF mode \in OrthoModes
         THEN generate_annotation(Source(j), gene_map, target_genes).value
         ELSE p2g_generate_annotation("GoAssociation", Source(j), PyDict(xrefs)).value
  /\ pc = "done" =>
       Range(src_of) = { k \in 1..Len(InputList) : Mapped(InputList[k]) }

\* two records with different subjects have been translated, in input order
C9_Witness ==
  /\ mode = "p2g_call"
  /\ run = 1
  /\ pc = "done"
  /\ src_of = <<1, 2>>
  /\ OutputRecords[1] # OutputRecords[2]

----------------------------------------------------------------------------
(* C10 *)

\* C10 as stated: the cross-reference driver iterates the source annotation
\* list that get_source_annotations returned and passes generate_annotation
\* the xrefs dictionary it returned.
C10_AsStated ==
  (mode = "p2g_driver" /\ pc # "start") =>
    /\ locals.source_annotations.type = "list"
    /\ locals.source_annotations.val = source_annotations
    /\ locals.xrefs.type = "dict"
    /\ locals.xrefs = PyDict(xrefs)

====
